---------------------------- MODULE Spec2Model ----------------------------
(***************************************************************************)
(* A model of pdf2image.py: convert_from_path and its helpers.             *)
(*                                                                         *)
(* Strings and byte strings are sequences of character codes, so that      *)
(* substring tests, sorting, formatting and the scan for the PNG end       *)
(* marker are computed as the code computes them.  None is <<>> and a      *)
(* given value v is <<v>> for the optional arguments.                      *)
(***************************************************************************)
EXTENDS Integers, Sequences, FiniteSets, TLC

\* ------------------------------------------------------------------ bounds
\* Largest page count the info tool reports in the full-call specification.
MaxPages == 3
\* Largest page count the info tool reports in the partitioner specification.
MaxPartPages == 4
\* Most containers in a stream, and most payload bytes in a whole stream, in
\* the buffer-parser specification.
MaxContainers == 2
MaxPayload == 4

VARIABLES
    pc,            \* where the call is: "page_count", "partition", "spawn",
                   \* "collect", "rename", "returned", "raised"
                   \* (buffer-parser specification: "parse", "parsed", "raised")
    exc,           \* the exception that ended the call, "" when none
    args,          \* the caller's arguments: first_page, last_page (optional),
                   \* thread_count, output_folder (TRUE: directory mode)
    pdfinfo,       \* what the info tool prints: <<n>> for "Pages: n", <<>> for none
    uuids,         \* the values uuid.uuid4() will return, in order
    page_count, thread_count, first_page, last_page, reminder, current_page,
    processes,     \* the list built at line 66, with each process's own state
    waited,        \* how many processes the collector loop has waited on
    images, idx,   \* the image list and the rename loop's position
    files,         \* the file system: path -> content
    data,          \* buffer-parser specification: the byte stream parsed
    containers     \* buffer-parser specification: the containers data was built from

vars == <<pc, exc, args, pdfinfo, uuids, page_count, thread_count, first_page,
          last_page, reminder, current_page, processes, waited, images, idx,
          files, data, containers>>

\* ----------------------------------------------------------- strings, bytes
None == <<>>
Some(v) == <<v>>

\* b'IEND'
IEND == <<73, 69, 78, 68>>
\* '-', '/', '.png'
Dash == <<45>>
Slash == <<47>>
DotPng == <<46, 112, 110, 103>>

RECURSIVE Digits(_)
\* str(n) for n >= 0, and '{}'.format(n)
Digits(n) == IF n < 10 THEN <<48 + n>> ELSE Digits(n \div 10) \o <<48 + (n % 10)>>

Str(n) == IF n < 0 THEN Dash \o Digits(-n) ELSE Digits(n)

\* u in f, for strings
Contains(u, f) ==
    \E i \in 0..(Len(f) - Len(u)) : SubSeq(f, i + 1, i + Len(u)) = u

\* s < t in Python's string order
LexLess(s, t) ==
    \E i \in 1..(Len(t)) :
        /\ i <= Len(s) + 1
        /\ \A j \in 1..(i - 1) : s[j] = t[j]
        /\ (i = Len(s) + 1 \/ s[i] < t[i])

RECURSIVE Sorted(_)
\* sorted(S) for a set of strings
Sorted(S) ==
    IF S = {} THEN <<>>
    ELSE LET m == CHOOSE x \in S : \A y \in S \ {x} : LexLess(x, y)
         IN <<m>> \o Sorted(S \ {m})

\* Python's % and // (the result of % takes the divisor's sign)
PyMod(a, b) == IF b > 0 THEN a % b ELSE -((-a) % (-b))
PyDiv(a, b) == IF b > 0 THEN a \div b ELSE (-a) \div (-b)

\* ------------------------------------------------------------- partitioner
DefaultFirst(fp) == IF fp = None THEN 1 ELSE fp[1]

ClampLast(lp, total) == IF lp = None \/ lp[1] > total THEN total ELSE lp[1]

ClampThreadsNoRange(tc, total, n) ==
    LET t1 == IF tc < 1 THEN 1 ELSE tc
    IN IF total < t1 THEN total ELSE t1

\* lines 34-38 and 49-50: total is the document's page count, n the recalculated one
ClampThreads(tc, total, n) ==
    LET t1 == IF tc < 1 THEN 1 ELSE tc
        t2 == IF total < t1 THEN total ELSE t1
    IN IF t2 > n THEN n ELSE t2

ThreadPageCountNoReminder(n, t, r) == PyDiv(n, t)

ThreadPageCountAllReminder(n, t, r) == PyDiv(n, t) + r

\* line 59
ThreadPageCount(n, t, r) == PyDiv(n, t) + (IF r > 0 THEN 1 ELSE 0)

RangeDoneEarly(spawned, t) == spawned >= 1

\* line 55: range(thread_count) is exhausted
RangeDone(spawned, t) == spawned >= t


\* -------------------------------------------------------------------- paths
\* the folder given as output_folder, 'o'
OutputFolder == <<111>>

\* line 31: os.path.splitext(os.path.basename(pdf_path))[0] for pdf_path 'd.pdf'
pdf_name == <<100>>

LastSlash(p) ==
    LET at == {i \in 1..Len(p) : p[i] = Slash[1]}
    IN IF at = {} THEN 0 ELSE CHOOSE i \in at : \A j \in at : j <= i

\* os.path.dirname, os.path.basename, os.path.join (relative second part)
Dirname(p) == SubSeq(p, 1, LastSlash(p) - 1)
Basename(p) == SubSeq(p, LastSlash(p) + 1, Len(p))
Join(a, b) == IF a = <<>> THEN b ELSE a \o Slash \o b

\* line 79: pdf_name + '-{}.png'.format(n)
PageName(n) == pdf_name \o Dash \o Str(n) \o DotPng

\* the converter's file for a page under a root: '<root>-<6 digits>.png'
Pad6(n) == [i \in 1..6 |-> 48 + ((n \div (10 ^ (6 - i))) % 10)]
PngFile(root, page) == root \o Dash \o Pad6(page) \o DotPng

\* os.listdir(folder)
Listdir(fs, folder) == {Basename(p) : p \in {q \in DOMAIN fs : Dirname(q) = folder}}

\* ------------------------------------------------------------------- images
\* the container the converter emits for a page: a payload, the end marker, a CRC
Container(page) == <<page>> \o IEND \o <<0, 0, 0, page>>

\* Image.open(path): the image remembers the path it was opened from
ImageOpenPath(fs, path) == [filename |-> path, open |-> TRUE, content |-> fs[path]]

\* Image.open(BytesIO(bytes)): no path, so filename is ''
ImageOpenBytes(bytes) == [filename |-> <<>>, open |-> TRUE, content |-> bytes]

LoadAnyFile(fs, folder, uid) ==
    LET s == Sorted(Listdir(fs, folder))
    IN [i \in 1..Len(s) |-> ImageOpenPath(fs, Join(folder, s[i]))]

\* lines 147-148
LoadFromOutputFolder(fs, folder, uid) ==
    LET s == Sorted({f \in Listdir(fs, folder) : Contains(uid, f)})
    IN [i \in 1..Len(s) |-> ImageOpenPath(fs, Join(folder, s[i]))]

\* s.index(pat), 0-based; -1 stands for the ValueError of a missing pattern
Index(s, pat) ==
    LET at == {i \in 0..(Len(s) - Len(pat)) : SubSeq(s, i + 1, i + Len(pat)) = pat}
    IN IF at = {} THEN -1 ELSE CHOOSE i \in at : \A j \in at : i <= j

FileSizeNoCrc(rest) == Index(rest, IEND) + 4

\* line 128: 4 bytes for IEND + 4 bytes for CRC
FileSize(rest) == Index(rest, IEND) + 8

RECURSIVE ParseFrom(_, _)
\* lines 127-130, from position index; ok = FALSE when data[index:].index raises
ParseFrom(d, index) ==
    IF index >= Len(d) THEN [ok |-> TRUE, images |-> <<>>]
    ELSE LET rest == SubSeq(d, index + 1, Len(d))
         IN IF Index(rest, IEND) < 0 THEN [ok |-> FALSE, images |-> <<>>]
            ELSE LET file_size == FileSize(rest)
                     stop == IF index + file_size > Len(d) THEN Len(d)
                             ELSE index + file_size
                     more == ParseFrom(d, index + file_size)
                 IN [ok |-> more.ok,
                     images |-> IF more.ok
                                THEN <<ImageOpenBytes(SubSeq(d, index + 1, stop))>>
                                     \o more.images
                                ELSE <<>>]

\* lines 122-132
ParseBufferToPng(d) == ParseFrom(d, 0)

\* ------------------------------------------------------------- convert_from_path
Raise(e) == pc' = "raised" /\ exc' = e

\* line 32 and lines 134-145
PageCount ==
    /\ pc = "page_count"
    /\ IF pdfinfo = None
       THEN Raise("Exception") /\ UNCHANGED page_count
       ELSE pc' = "partition" /\ page_count' = pdfinfo[1] /\ UNCHANGED exc
    /\ UNCHANGED <<args, pdfinfo, uuids, thread_count, first_page, last_page,
                   reminder, current_page, processes, waited, images, idx,
                   files, data, containers>>

\* lines 34-54
Partition ==
    /\ pc = "partition"
    /\ LET fp == DefaultFirst(args.first_page)
           lp == ClampLast(args.last_page, page_count)
           n == lp - fp + 1
           t == ClampThreads(args.thread_count, page_count, n)
       IN /\ first_page' = fp
          /\ last_page' = lp
          /\ page_count' = n
          /\ thread_count' = t
          /\ IF t = 0
             THEN Raise("ZeroDivisionError") /\ UNCHANGED <<reminder, current_page>>
             ELSE /\ reminder' = PyMod(n, t)
                  /\ current_page' = fp
                  \* with no process started, lines 68-84 collect and rename nothing
                  /\ pc' = IF RangeDone(0, t) THEN "returned" ELSE "spawn"
                  /\ UNCHANGED exc
    /\ UNCHANGED <<args, pdfinfo, uuids, processes, waited, images, idx, files,
                   data, containers>>

\* lines 55-66: one pass of the loop; the -f and -l arguments are those of lines
\* 106-110, the root that of line 115
Spawn ==
    /\ pc = "spawn"
    /\ LET uid == Head(uuids)
           thread_page_count == ThreadPageCount(page_count, thread_count, reminder)
       IN /\ processes' = Append(processes,
                [uid |-> uid, first |-> current_page,
                 last |-> current_page + thread_page_count - 1,
                 state |-> "running", written |-> 0, stdout |-> <<>>])
          /\ current_page' = current_page + thread_page_count
    /\ uuids' = Tail(uuids)
    /\ reminder' = reminder - (IF reminder > 0 THEN 1 ELSE 0)
    /\ pc' = IF RangeDone(Len(processes) + 1, thread_count) THEN "collect" ELSE "spawn"
    /\ UNCHANGED <<exc, args, pdfinfo, page_count, thread_count, first_page,
                   last_page, waited, images, idx, files, data, containers>>


\* ------------------------------------------------------------ the converter
\* The external converter started at line 66, as section 6 of its contract has
\* it: one file per page under the root (directory mode), or one container per
\* page on stdout, in page order.  It may stop at any point, and it runs beside
\* the caller whatever the caller does.
ConverterWrite(k) ==
    /\ k \in 1..Len(processes)
    /\ processes[k].state = "running"
    /\ LET p == processes[k]
           page == p.first + p.written
       IN /\ page <= p.last
          /\ IF args.output_folder
             THEN /\ files' = (PngFile(Join(OutputFolder, p.uid), page) :> Container(page))
                              @@ files
                  /\ processes' = [processes EXCEPT ![k].written = @ + 1]
             ELSE /\ processes' = [processes EXCEPT ![k].written = @ + 1,
                                                    ![k].stdout = @ \o Container(page)]
                  /\ UNCHANGED files
    /\ UNCHANGED <<pc, exc, args, pdfinfo, uuids, page_count, thread_count,
                   first_page, last_page, reminder, current_page, waited, images,
                   idx, data, containers>>

\* the process ends: with every page written, or before (a failure)
ConverterExit(k) ==
    /\ k \in 1..Len(processes)
    /\ processes[k].state = "running"
    /\ processes' = [processes EXCEPT ![k].state = "exited"]
    /\ UNCHANGED <<pc, exc, args, pdfinfo, uuids, page_count, thread_count,
                   first_page, last_page, reminder, current_page, waited, images,
                   idx, files, data, containers>>

\* the process fails after printing bytes that are no container ('!')
ConverterGarbage(k) ==
    /\ k \in 1..Len(processes)
    /\ processes[k].state = "running"
    /\ ~args.output_folder
    /\ processes' = [processes EXCEPT ![k].state = "exited", ![k].stdout = @ \o <<33>>]
    /\ UNCHANGED <<pc, exc, args, pdfinfo, uuids, page_count, thread_count,
                   first_page, last_page, reminder, current_page, waited, images,
                   idx, files, data, containers>>

\* ---------------------------------------------------------------- collector
AfterCollect(n) ==
    IF n < Len(processes) THEN "collect"
    ELSE IF Len(images') > 0 THEN "rename" ELSE "returned"

\* lines 69-75: one pass of the loop; communicate() returns once the process ended
Collect ==
    /\ pc = "collect"
    /\ waited < Len(processes)
    /\ LET k == waited + 1
           p == processes[k]
       IN /\ p.state = "exited"
          /\ processes' = [processes EXCEPT ![k].state = "waited"]
          /\ waited' = k
          /\ IF args.output_folder
             THEN /\ images' = images \o LoadFromOutputFolder(files, OutputFolder, p.uid)
                  /\ pc' = AfterCollect(k)
                  /\ UNCHANGED exc
             ELSE LET r == ParseBufferToPng(p.stdout)
                  IN IF r.ok
                     THEN /\ images' = images \o r.images
                          /\ pc' = AfterCollect(k)
                          /\ UNCHANGED exc
                     ELSE Raise("ValueError") /\ UNCHANGED images
    /\ UNCHANGED <<args, pdfinfo, uuids, page_count, thread_count, first_page,
                   last_page, reminder, current_page, idx, files, data, containers>>

\* ---------------------------------------------------------------- assembler
\* os.rename(src, dst) on files
Renamed(fs, src, dst) ==
    [p \in (DOMAIN fs \ {src}) \cup {dst} |-> IF p = dst THEN fs[src] ELSE fs[p]]

\* line 79, with first_page the local of lines 40-41
NewName(image_name, i) ==
    Join(Dirname(image_name), PageName(first_page + i))

ExistsNever(fs, path) == FALSE

\* line 81: os.path.exists(path)
Exists(fs, path) == path \in DOMAIN fs

\* lines 77-83: one pass of the loop.  os.path has no remove, so line 82 raises
\* AttributeError; os.rename of a path that names no file raises FileNotFoundError
Rename ==
    /\ pc = "rename"
    /\ idx < Len(images)
    /\ LET image == images[idx + 1]
           image_name == image.filename
           new_name == NewName(image_name, idx)
       IN /\ images' = [images EXCEPT ![idx + 1].open = FALSE]
          /\ IF Exists(files, new_name)
             THEN Raise("AttributeError") /\ UNCHANGED <<files, idx>>
             ELSE IF image_name \notin DOMAIN files
             THEN Raise("FileNotFoundError") /\ UNCHANGED <<files, idx>>
             ELSE /\ files' = Renamed(files, image_name, new_name)
                  /\ idx' = idx + 1
                  /\ pc' = IF idx + 1 < Len(images) THEN "rename" ELSE "returned"
                  /\ UNCHANGED exc
    /\ UNCHANGED <<args, pdfinfo, uuids, page_count, thread_count, first_page,
                   last_page, reminder, current_page, processes, waited, data,
                   containers>>


\* ------------------------------------------------------------ specifications
\* uuid.uuid4() never repeats a value; run ids are two hexadecimal letters here
UidsAscending == [i \in 1..9 |-> <<97 + ((i - 1) \div 3), 97 + ((i - 1) % 3)>>]
UidsDescending == [i \in 1..9 |-> UidsAscending[10 - i]]

Optional(S) == {None} \cup {Some(v) : v \in S}

\* what the folders may hold before the call: the result of an earlier
\* conversion, a file an earlier run left under its own run id, and a file in
\* the current directory
EarlierFiles ==
    { Join(OutputFolder, PageName(2)),
      Join(OutputFolder, PngFile(UidsAscending[5], 1)),
      PageName(1) }

\* the locals hold 0 until the code assigns them
InitLocals ==
    /\ pc = "page_count"
    /\ exc = ""
    /\ page_count = 0 /\ thread_count = 0
    /\ first_page = 0 /\ last_page = 0
    /\ reminder = 0 /\ current_page = 0
    /\ processes = <<>> /\ waited = 0
    /\ images = <<>> /\ idx = 0
    /\ data = <<>> /\ containers = <<>>

\* the full call: a first page no greater than the last one asked for, which the
\* document may still fall short of
Init ==
    /\ InitLocals
    /\ pdfinfo \in Optional(1..MaxPages)
    /\ args \in [first_page : Optional(1..MaxPages),
                 last_page : Optional(1..MaxPages),
                 thread_count : 1..MaxPages,
                 output_folder : BOOLEAN]
    /\ DefaultFirst(args.first_page) <= ClampLast(args.last_page, MaxPages)
    /\ uuids \in {SubSeq(UidsAscending, 1, MaxPages), SubSeq(UidsDescending, 1, MaxPages)}
    /\ \E present \in SUBSET EarlierFiles : files = [p \in present |-> Container(0)]
    /\ \A i \in 1..Len(uuids) : \A p \in DOMAIN files : ~Contains(uuids[i], p)

Next ==
    \/ PageCount
    \/ Partition
    \/ Spawn
    \/ \E k \in 1..MaxPages : ConverterWrite(k)
    \/ \E k \in 1..MaxPages : ConverterExit(k)
    \/ \E k \in 1..MaxPages : ConverterGarbage(k)
    \/ Collect
    \/ Rename

Spec == Init /\ [][Next]_vars

\* the partitioner alone (lines 32-66), on every kind of argument
InitPart ==
    /\ InitLocals
    /\ pdfinfo \in Optional(0..MaxPartPages)
    /\ args \in [first_page : Optional(-1..(MaxPartPages + 1)),
                 last_page : Optional(-1..(MaxPartPages + 1)),
                 thread_count : -1..(MaxPartPages + 2),
                 output_folder : {TRUE}]
    /\ uuids = UidsAscending
    /\ files = <<>>

NextPart ==
    \/ PageCount
    \/ Partition
    \/ Spawn

SpecPart == InitPart /\ [][NextPart]_vars


\* the buffer parser alone (lines 122-132), on streams of well-formed containers
\* payload bytes: 'I', 'E', 'N', 'D', the only bytes the scan compares with
PayloadBytes == {73, 69, 78, 68}
Crcs == {<<0, 0, 0, 0>>, IEND}

ContainersUpTo(budget) ==
    UNION {[payload : [1..n -> PayloadBytes], crc : Crcs] : n \in 0..budget}

Bytes(c) == c.payload \o IEND \o c.crc

InitParse ==
    /\ pc = "parse"
    /\ exc = ""
    /\ page_count = 0 /\ thread_count = 0
    /\ first_page = 0 /\ last_page = 0
    /\ reminder = 0 /\ current_page = 0
    /\ processes = <<>> /\ waited = 0
    /\ images = <<>> /\ idx = 0
    /\ pdfinfo = None
    /\ args = [first_page |-> None, last_page |-> None, thread_count |-> 1,
               output_folder |-> FALSE]
    /\ uuids = <<>>
    /\ files = <<>>
    /\ containers = <<>>
    /\ data = <<>>

RECURSIVE PayloadLen(_)
PayloadLen(cs) == IF cs = <<>> THEN 0 ELSE Len(Head(cs).payload) + PayloadLen(Tail(cs))

\* the stream grows by one well-formed container
Emit ==
    /\ pc = "parse"
    /\ Len(containers) < MaxContainers
    /\ \E c \in ContainersUpTo(MaxPayload - PayloadLen(containers)) :
         /\ containers' = Append(containers, c)
         /\ data' = data \o Bytes(c)
    /\ UNCHANGED <<pc, exc, args, pdfinfo, uuids, page_count, thread_count,
                   first_page, last_page, reminder, current_page, processes,
                   waited, images, idx, files>>

\* a call of __parse_buffer_to_png(data)
ParseBuffer ==
    /\ pc = "parse"
    /\ LET r == ParseBufferToPng(data)
       IN IF r.ok
          THEN pc' = "parsed" /\ images' = r.images /\ UNCHANGED exc
          ELSE Raise("ValueError") /\ UNCHANGED images
    /\ UNCHANGED <<args, pdfinfo, uuids, page_count, thread_count, first_page,
                   last_page, reminder, current_page, processes, waited, idx,
                   files, data, containers>>

NextParse == Emit \/ ParseBuffer

SpecParse == InitParse /\ [][NextParse]_vars


\* ==================================================================== claims
\* what the caller asked for, with the defaults of the signature's None
Total == pdfinfo[1]
ReqFirst == IF args.first_page = None THEN 1 ELSE args.first_page[1]
ReqLast == IF args.last_page = None THEN Total ELSE args.last_page[1]
EffLast == IF ReqLast > Total THEN Total ELSE ReqLast

\* the page count was read and the dispatch loop is over (or never began)
Dispatched ==
    \/ pc \in {"collect", "rename", "returned"}
    \/ pc = "raised" /\ exc \notin {"Exception", "ZeroDivisionError"}

PartSize(i) == processes[i].last - processes[i].first + 1

\* C1: for valid inputs (total >= 1, 1 <= first_page <= last_page <= total, any
\* thread_count) the sub-ranges handed to the converter processes, in spawn
\* order, are non-empty, contiguous and ascending, start at first_page and end
\* at last_page.
C1_PartitionCoversRange ==
    (/\ pdfinfo # None
     /\ Total >= 1 /\ 1 <= ReqFirst /\ ReqFirst <= ReqLast /\ ReqLast <= Total
     /\ Dispatched)
    => /\ Len(processes) >= 1
       /\ processes[1].first = ReqFirst
       /\ processes[Len(processes)].last = ReqLast
       /\ \A i \in 1..Len(processes) : processes[i].first <= processes[i].last
       /\ \A i \in 1..(Len(processes) - 1) :
              processes[i + 1].first = processes[i].last + 1

C1_Witness ==
    /\ pdfinfo # None /\ Dispatched
    /\ ReqFirst = 2 /\ ReqLast = 4 /\ Total = 4
    /\ args.thread_count = 2
    /\ Len(processes) = 2
    /\ PartSize(1) = 2 /\ PartSize(2) = 1

\* C2 as stated: whatever the arguments, the number of processes spawned lies
\* in [1, last_page - first_page + 1].
C2_AlwaysClamped ==
    (pc \in {"collect", "rename", "returned", "raised"} /\ exc # "Exception")
    => /\ 1 <= Len(processes)
       /\ Len(processes) <= last_page - first_page + 1

\* C2 amended: when the document has at least one page and first_page is no
\* greater than the last page after its clamp to the total, the number of
\* processes spawned lies in [1, last - first + 1] whatever thread_count is,
\* and is last - first + 1 when thread_count is at least that and first_page >= 1.
C2_ClampedOnNonEmptyRange ==
    (/\ pdfinfo # None /\ pc # "page_count" /\ pc # "partition" /\ pc # "spawn"
     /\ Total >= 1 /\ ReqFirst <= EffLast)
    => /\ pc # "raised"
       /\ 1 <= Len(processes)
       /\ Len(processes) <= EffLast - ReqFirst + 1
       /\ (args.thread_count >= EffLast - ReqFirst + 1 /\ ReqFirst >= 1)
              => Len(processes) = EffLast - ReqFirst + 1

C2_Witness ==
    /\ pdfinfo # None /\ pc = "collect"
    /\ Total = 4 /\ ReqFirst = 2 /\ ReqLast = 5
    /\ args.thread_count = 6
    /\ Len(processes) = 3

\* C3: with n = last_page - first_page + 1 and t the clamped thread count, the
\* first (n mod t) partitions hold (n div t) + 1 pages and the others n div t.
C3_RemainderToEarliest ==
    (Dispatched /\ thread_count >= 1)
    => /\ Len(processes) = thread_count
       /\ \A i \in 1..Len(processes) :
              PartSize(i) = ((last_page - first_page + 1) \div thread_count)
                            + (IF i <= (last_page - first_page + 1) % thread_count
                               THEN 1 ELSE 0)

C3_Witness ==
    /\ Dispatched
    /\ last_page - first_page + 1 = 4 /\ thread_count = 3
    /\ PartSize(1) = 2 /\ PartSize(2) = 1 /\ PartSize(3) = 1

\* C4 as stated: whatever the payloads, a stream of N well-formed containers
\* parses to N images, the i-th built from the bytes of the i-th container.
C4_AnyPayload ==
    pc # "parse"
    => /\ pc = "parsed"
       /\ Len(images) = Len(containers)
       /\ \A i \in 1..Len(containers) : images[i].content = Bytes(containers[i])

NoMarkerInPayloads == \A i \in 1..Len(containers) : ~Contains(IEND, containers[i].payload)

\* C4 amended: when no payload contains the bytes 'IEND', a stream of N
\* well-formed containers parses to N images, the i-th built from the bytes of
\* the i-th container.
C4_MarkerFreePayloads ==
    (pc # "parse" /\ NoMarkerInPayloads)
    => /\ pc = "parsed"
       /\ Len(images) = Len(containers)
       /\ \A i \in 1..Len(containers) : images[i].content = Bytes(containers[i])

C4_Witness ==
    /\ pc = "parsed" /\ NoMarkerInPayloads
    /\ Len(containers) = 2 /\ Len(images) = 2
    /\ containers[1].payload = <<73, 69, 78>> /\ containers[1].crc = IEND
    /\ containers[2].payload = <<68>>


\* the folder the page-indexed names land in: output_folder, or the current
\* directory for an image that was opened from bytes
TargetFolder == IF args.output_folder THEN OutputFolder ELSE <<>>
PagePath(i) == Join(TargetFolder, pdf_name \o Dash \o Str(ReqFirst + i) \o DotPng)

\* the call is over, and it ended in or after the rename loop
Assembled ==
    \/ pc = "returned"
    \/ pc = "raised" /\ exc \in {"AttributeError", "FileNotFoundError"}

\* C5 as stated: in directory mode and in buffer mode alike, the image at
\* position i of the list ends up as the file '<stem>-<first_page + i>.png'.
C5_EveryImageNamedByPage ==
    Assembled
    => \A i \in 0..(Len(images) - 1) :
           /\ PagePath(i) \in DOMAIN files
           /\ files[PagePath(i)] = images[i + 1].content

\* the files the converter of partition k wrote, in page order
WrittenBy(k) ==
    [j \in 1..processes[k].written |->
        Join(OutputFolder, processes[k].uid) \o Dash
            \o Pad6(processes[k].first + j - 1) \o DotPng]

RECURSIVE WrittenUpTo(_)
WrittenUpTo(k) == IF k = 0 THEN <<>> ELSE WrittenUpTo(k - 1) \o WrittenBy(k)

\* C6: in directory mode what the collector has gathered is, partition after
\* partition in the order waited on, exactly the files that partition's own
\* converter wrote under its run id, in name order: no file of a sibling that
\* is still writing, no file that was in the folder before.
C6_OnlyOwnRunId ==
    args.output_folder
    => /\ Len(images) = Len(WrittenUpTo(waited))
       /\ \A i \in 1..Len(images) :
              /\ images[i].filename = WrittenUpTo(waited)[i]
              /\ images[i].content # Container(0)

C6_Witness ==
    /\ args.output_folder /\ pc = "collect"
    /\ waited = 1 /\ Len(processes) = 3
    /\ Len(images) = 1
    /\ processes[2].written = 1 /\ processes[3].written = 1
    /\ Join(OutputFolder, PngFile(UidsAscending[5], 1)) \in DOMAIN files
    /\ uuids = <<>> /\ processes[1].uid = UidsDescending[1]

\* C7 as stated: on a normal return every image of the list is open and
\* carries its page-indexed file name.
C7_ReturnedOpenAndNamed ==
    pc = "returned"
    => \A i \in 0..(Len(images) - 1) :
           /\ images[i + 1].open
           /\ images[i + 1].filename = PagePath(i)

\* the converter of partition k ended without having emitted all its pages, or
\* after emitting bytes that are no container
Failed(k) ==
    /\ processes[k].state # "running"
    /\ \/ processes[k].written < processes[k].last - processes[k].first + 1
       \/ Len(processes[k].stdout) # processes[k].written * Len(Container(0))

\* C8 as stated: in buffer mode, once a failed converter process has been
\* waited on and its output handed to the parser, the call has ended with the
\* parser's failure to find an end marker; it never goes on, nor returns.
C8_FailureSurfacesInParser ==
    ~args.output_folder
    => \A k \in 1..waited : Failed(k) => (pc = "raised" /\ exc = "ValueError")

Live == {k \in 1..Len(processes) : processes[k].state # "waited"}

\* C9: no process exists before the page count is known; every partition's
\* process is started before the first is waited on; the processes waited on
\* are a prefix of the list, in order; never more processes than the clamped
\* thread count; a normal return leaves none unwaited.
C9_SpawnAllThenWaitInOrder ==
    /\ pc \in {"page_count", "partition"} => processes = <<>>
    /\ waited > 0 => Len(processes) = thread_count
    /\ \A k \in 1..Len(processes) : (processes[k].state = "waited") <=> (k <= waited)
    /\ processes # <<>> => Cardinality(Live) <= thread_count
    /\ pc \in {"rename", "returned"} => Live = {}

C9_Witness ==
    /\ pc = "returned" /\ Len(processes) = 3 /\ waited = 3 /\ Len(images) = 3

\* C10: when a file already exists at the name image idx is to take, the
\* rename loop's next step ends the call with an exception: no file is removed,
\* overwritten or renamed by it, the images before idx keep their new names,
\* and nothing is returned.
C10_CollisionCrashes ==
    [][(pc = "rename" /\ PagePath(idx) \in DOMAIN files)
       => /\ pc' = "raised" /\ exc' = "AttributeError"
          /\ files' = files
          /\ idx' = idx
          /\ args.output_folder => images[idx + 1].filename \in DOMAIN files'
          /\ \A j \in 0..(idx - 1) :
                 /\ PagePath(j) \in DOMAIN files'
                 /\ files'[PagePath(j)] = images[j + 1].content]_vars

C10_Witness ==
    /\ pc = "raised" /\ exc = "AttributeError"
    /\ args.output_folder /\ idx = 1 /\ Len(images) = 2
    /\ files[PagePath(1)] = Container(0)
    /\ files[PagePath(0)] = images[1].content
    /\ images[2].filename \in DOMAIN files

==========================================================================
